---- MODULE Spec2Model ----
(***************************************************************************)
(* Rule-based scoring engine (analysis_engine.py) and score-bin backtest   *)
(* (backtest_engine.py).                                                   *)
(*                                                                         *)
(* Numbers.  The code works on floats; the model uses fixed-point integers *)
(* so that every threshold of the code is an integer:                      *)
(*   close, ma20, ma60, ma120   price units                                *)
(*   rsi14                      RSI points            (30, 70)             *)
(*   mom20, mom60               1/1000                (0.08 = 80)          *)
(*   vol_ratio                  1/100                 (1.8 = 180)          *)
(*   vol20_pct                  percent               (35, 15)             *)
(*   dd252                      1/100                 (-0.30 = -30)        *)
(*   pos20                      1/100                 (0.15 = 15)          *)
(* An indicator is NaN (undefined) or <<v>> with v its value.              *)
(* Rating labels and reason texts are the code's Korean strings rendered   *)
(* as ASCII identifiers; the correspondence is given where they are        *)
(* defined.                                                                *)
(***************************************************************************)
EXTENDS Integers, Sequences, FiniteSets, TLC

VARIABLES
    row,        \* the indicator row handed to _score_from_row
    spc,        \* position inside rule_result_from_df / _score_from_row
    s,          \* local s of _score_from_row
    reasons,    \* local reasons of _score_from_row
    rr,         \* the dict returned by rule_result_from_df, or NoResult
    payload,    \* reasons sent by make_ai_comment_korean, or NoResult
    probe,      \* two scores handed to score_to_rating
    ratings,    \* the two ratings score_to_rating returned for probe
    df,         \* backtest: the indicator frame, rows 0..len(df)-1
    horizon,    \* backtest: the horizon argument
    fwd_ret,    \* backtest: the fwd_ret column of df
    i,          \* backtest: the loop index
    rows,       \* backtest: the (score, fwd) samples collected so far
    bpc,        \* backtest: position inside backtest_score_bins
    result,     \* backtest: the returned dict
    pending,    \* map-then-reduce backtest: the row indices not yet scored
    series,     \* two raw OHLCV series that agree on rows 0..cut
    cut,        \* the row index at which both series are scored
    scored      \* the frame row and scorer output at cut, one per series

scorer_vars == <<row, spc, s, reasons, rr, payload>>

rating_vars == <<probe, ratings>>

backtest_vars == <<df, horizon, fwd_ret, i, rows, bpc, result>>

parallel_vars == <<pending>>

indicator_vars == <<series, cut, scored>>

vars == <<scorer_vars, rating_vars, backtest_vars, parallel_vars, indicator_vars>>

----------------------------------------------------------------------------
(* Optional values *)

NaN == <<>>

notna(x) == x # NaN

float(x) == x[1]

NoResult == [none |-> TRUE]

----------------------------------------------------------------------------
(* score_to_rating.  "적극매수" = StrongBuy, "매수" = Buy, "중립" = Neutral,   *)
(* "매도" = Sell, "적극매도" = StrongSell.                                   *)

\* mutant: the first threshold read as exclusive
score_to_rating_exclusive(score) ==
    IF score > 80 THEN "StrongBuy"
    ELSE IF score >= 60 THEN "Buy"
    ELSE IF score >= 40 THEN "Neutral"
    ELSE IF score >= 20 THEN "Sell"
    ELSE "StrongSell"

score_to_rating(score) ==
    IF score >= 80 THEN "StrongBuy"
    ELSE IF score >= 60 THEN "Buy"
    ELSE IF score >= 40 THEN "Neutral"
    ELSE IF score >= 20 THEN "Sell"
    ELSE "StrongSell"

----------------------------------------------------------------------------
(* _score_from_row, one operator per factor.  acc is [s, reasons], the two *)
(* locals every factor reads and writes.  A reason is                      *)
(* [factor, text, val]: the factor that appended it, the fixed part of the *)
(* string, and the number formatted into the string, in units of the last  *)
(* digit shown (NaN when the string embeds no number).                     *)

Reason(k, t, v) == [factor |-> k, text |-> t, val |-> v]

Add(acc, d, r) == [s |-> acc.s + d, reasons |-> Append(acc.reasons, r)]

above(close, x) == notna(x) /\ close > float(x)

\* {r:.1f} of an RSI or volatility value held in whole points
fmt1(v) == <<v * 10>>

\* {m*100:.1f} of a momentum held in 1/1000: tenths of a percent
fmt_pct1(m) == <<m>>

\* {vr:.2f} of a ratio held in 1/100
fmt2(vr) == <<vr>>

\* {dd*100:.0f} of a drawdown held in 1/100: whole percent
fmt_pct0(dd) == <<dd>>

factor_ma20(r, acc) ==
    IF notna(r.ma20)
    THEN Add(acc, IF above(float(r.close), r.ma20) THEN 8 ELSE -8,
             Reason(1, IF above(float(r.close), r.ma20)
                       THEN "above_ma20" ELSE "below_ma20", NaN))
    ELSE acc

factor_ma60(r, acc) ==
    IF notna(r.ma60)
    THEN Add(acc, IF above(float(r.close), r.ma60) THEN 10 ELSE -10,
             Reason(2, IF above(float(r.close), r.ma60)
                       THEN "above_ma60" ELSE "below_ma60", NaN))
    ELSE acc

factor_ma120(r, acc) ==
    IF notna(r.ma120)
    THEN Add(acc, IF above(float(r.close), r.ma120) THEN 6 ELSE -6,
             Reason(3, IF above(float(r.close), r.ma120)
                       THEN "above_ma120" ELSE "below_ma120", NaN))
    ELSE acc

factor_align(r, acc) ==
    IF notna(r.ma20) /\ notna(r.ma60) /\ notna(r.ma120)
    THEN IF float(r.ma20) > float(r.ma60) /\ float(r.ma60) > float(r.ma120)
         THEN Add(acc, 8, Reason(4, "ma_bullish_alignment", NaN))
         ELSE IF float(r.ma20) < float(r.ma60) /\ float(r.ma60) < float(r.ma120)
         THEN Add(acc, -8, Reason(4, "ma_bearish_alignment", NaN))
         ELSE acc
    ELSE acc

\* mutant: the notna guard dropped, so an undefined RSI falls to the else branch
factor_rsi_unguarded(r, acc) ==
    IF notna(r.rsi14)
    THEN IF float(r.rsi14) < 30
         THEN Add(acc, 10, Reason(5, "rsi_oversold", fmt1(float(r.rsi14))))
         ELSE IF float(r.rsi14) > 70
         THEN Add(acc, -10, Reason(5, "rsi_overbought", fmt1(float(r.rsi14))))
         ELSE Add(acc, 0, Reason(5, "rsi_neutral", fmt1(float(r.rsi14))))
    ELSE Add(acc, 0, Reason(5, "rsi_neutral", NaN))

\* mutant: overbought only above 80
factor_rsi_80(r, acc) ==
    IF notna(r.rsi14)
    THEN IF float(r.rsi14) < 30
         THEN Add(acc, 10, Reason(5, "rsi_oversold", fmt1(float(r.rsi14))))
         ELSE IF float(r.rsi14) > 80
         THEN Add(acc, -10, Reason(5, "rsi_overbought", fmt1(float(r.rsi14))))
         ELSE Add(acc, 0, Reason(5, "rsi_neutral", fmt1(float(r.rsi14))))
    ELSE acc

factor_rsi(r, acc) ==
    IF notna(r.rsi14)
    THEN IF float(r.rsi14) < 30
         THEN Add(acc, 10, Reason(5, "rsi_oversold", fmt1(float(r.rsi14))))
         ELSE IF float(r.rsi14) > 70
         THEN Add(acc, -10, Reason(5, "rsi_overbought", fmt1(float(r.rsi14))))
         ELSE Add(acc, 0, Reason(5, "rsi_neutral", fmt1(float(r.rsi14))))
    ELSE acc

factor_mom20(r, acc) ==
    IF notna(r.mom20)
    THEN IF float(r.mom20) > 80
         THEN Add(acc, 6, Reason(6, "mom20_plus", fmt_pct1(float(r.mom20))))
         ELSE IF float(r.mom20) < -80
         THEN Add(acc, -6, Reason(6, "mom20", fmt_pct1(float(r.mom20))))
         ELSE acc
    ELSE acc

factor_mom60(r, acc) ==
    IF notna(r.mom60)
    THEN IF float(r.mom60) > 150
         THEN Add(acc, 6, Reason(7, "mom60_plus", fmt_pct1(float(r.mom60))))
         ELSE IF float(r.mom60) < -150
         THEN Add(acc, -6, Reason(7, "mom60", fmt_pct1(float(r.mom60))))
         ELSE acc
    ELSE acc

\* mutant: the contraction penalty made as large as the surge bonus
factor_vol_ratio_symmetric(r, acc) ==
    IF notna(r.vol_ratio)
    THEN IF float(r.vol_ratio) >= 180
         THEN Add(acc, 8, Reason(8, "volume_surge", fmt2(float(r.vol_ratio))))
         ELSE IF float(r.vol_ratio) <= 60
         THEN Add(acc, -8, Reason(8, "volume_contraction", fmt2(float(r.vol_ratio))))
         ELSE acc
    ELSE acc

factor_vol_ratio(r, acc) ==
    IF notna(r.vol_ratio)
    THEN IF float(r.vol_ratio) >= 180
         THEN Add(acc, 8, Reason(8, "volume_surge", fmt2(float(r.vol_ratio))))
         ELSE IF float(r.vol_ratio) <= 60
         THEN Add(acc, -3, Reason(8, "volume_contraction", fmt2(float(r.vol_ratio))))
         ELSE acc
    ELSE acc

factor_vol20(r, acc) ==
    IF notna(r.vol20_pct)
    THEN IF float(r.vol20_pct) >= 35
         THEN Add(acc, -5, Reason(9, "volatility_high", fmt1(float(r.vol20_pct))))
         ELSE IF float(r.vol20_pct) <= 15
         THEN Add(acc, 2, Reason(9, "volatility_low", fmt1(float(r.vol20_pct))))
         ELSE acc
    ELSE acc

\* mutant: the near-high branch left out
factor_dd252_no_near_high(r, acc) ==
    IF notna(r.dd252)
    THEN IF float(r.dd252) <= -30
         THEN Add(acc, 5, Reason(10, "drawdown_deep", fmt_pct0(float(r.dd252))))
         ELSE acc
    ELSE acc

factor_dd252(r, acc) ==
    IF notna(r.dd252)
    THEN IF float(r.dd252) <= -30
         THEN Add(acc, 5, Reason(10, "drawdown_deep", fmt_pct0(float(r.dd252))))
         ELSE IF float(r.dd252) >= -5
         THEN Add(acc, -3, Reason(10, "near_52w_high", NaN))
         ELSE acc
    ELSE acc

\* mutant: reasons.insert(0, ...) in place of reasons.append(...)
factor_pos20_front(r, acc) ==
    IF notna(r.pos20)
    THEN IF float(r.pos20) <= 15
         THEN [s |-> acc.s + 3,
               reasons |-> <<Reason(11, "near_20d_low", NaN)>> \o acc.reasons]
         ELSE IF float(r.pos20) >= 85
         THEN [s |-> acc.s - 2,
               reasons |-> <<Reason(11, "near_20d_high", NaN)>> \o acc.reasons]
         ELSE acc
    ELSE acc

factor_pos20(r, acc) ==
    IF notna(r.pos20)
    THEN IF float(r.pos20) <= 15
         THEN Add(acc, 3, Reason(11, "near_20d_low", NaN))
         ELSE IF float(r.pos20) >= 85
         THEN Add(acc, -2, Reason(11, "near_20d_high", NaN))
         ELSE acc
    ELSE acc

Max(a, b) == IF a >= b THEN a ELSE b

Min(a, b) == IF a <= b THEN a ELSE b

\* mutant: the upper bound of the clamp forgotten
clamp_lower_only(x) == Max(0, x)

clamp(x) == Max(0, Min(100, x))

entry == [s |-> 50, reasons |-> <<>>]

\* s and reasons as they stand just before the clamp of line 124
raw_score(r) ==
    factor_pos20(r, factor_dd252(r, factor_vol20(r, factor_vol_ratio(r,
    factor_mom60(r, factor_mom20(r, factor_rsi(r, factor_align(r,
    factor_ma120(r, factor_ma60(r, factor_ma20(r, entry)))))))))))

\* the (score, reasons) part of the tuple _score_from_row returns
score_from_row(r) ==
    [s |-> clamp(raw_score(r).s), reasons |-> raw_score(r).reasons]

\* reasons[:k]
Take(seq, k) == SubSeq(seq, 1, Min(k, Len(seq)))

----------------------------------------------------------------------------
(* Indicator rows the scorer is run on: every row that differs from one of *)
(* four base rows in at most MaxOverrides fields.                          *)

MaxOverrides == 2

Scenario1 ==
    [close |-> <<100>>, ma20 |-> <<95>>, ma60 |-> <<90>>, ma120 |-> <<85>>,
     rsi14 |-> <<50>>, mom20 |-> <<0>>, mom60 |-> <<0>>, vol_ratio |-> <<100>>,
     vol20_pct |-> <<20>>, dd252 |-> <<0>>, pos20 |-> <<50>>]

Scenario2 == [Scenario1 EXCEPT !.rsi14 = <<75>>]

AllUndefined ==
    [close |-> <<100>>, ma20 |-> NaN, ma60 |-> NaN, ma120 |-> NaN,
     rsi14 |-> NaN, mom20 |-> NaN, mom60 |-> NaN, vol_ratio |-> NaN,
     vol20_pct |-> NaN, dd252 |-> NaN, pos20 |-> NaN]

AllBullish ==
    [close |-> <<100>>, ma20 |-> <<95>>, ma60 |-> <<90>>, ma120 |-> <<85>>,
     rsi14 |-> <<25>>, mom20 |-> <<100>>, mom60 |-> <<200>>, vol_ratio |-> <<200>>,
     vol20_pct |-> <<10>>, dd252 |-> <<-40>>, pos20 |-> <<10>>]

AllBearish ==
    [close |-> <<100>>, ma20 |-> <<105>>, ma60 |-> <<110>>, ma120 |-> <<115>>,
     rsi14 |-> <<75>>, mom20 |-> <<-100>>, mom60 |-> <<-200>>, vol_ratio |-> <<50>>,
     vol20_pct |-> <<40>>, dd252 |-> <<0>>, pos20 |-> <<90>>]

BaseRows == {Scenario1, AllUndefined, AllBullish, AllBearish}

Indicators ==
    {"rsi14", "ma20", "ma60", "ma120", "vol_ratio", "vol20_pct",
     "mom20", "mom60", "dd252", "pos20"}

Fields == Indicators \cup {"close"}

Values(f) ==
    CASE f = "close"     -> {<<90>>, <<100>>, <<120>>}
      [] f = "ma20"      -> {NaN, <<95>>, <<100>>, <<105>>}
      [] f = "ma60"      -> {NaN, <<90>>, <<110>>}
      [] f = "ma120"     -> {NaN, <<85>>, <<115>>}
      [] f = "rsi14"     -> {NaN, <<25>>, <<30>>, <<50>>, <<70>>, <<75>>}
      [] f = "mom20"     -> {NaN, <<-100>>, <<-80>>, <<0>>, <<80>>, <<100>>}
      [] f = "mom60"     -> {NaN, <<-200>>, <<0>>, <<150>>, <<200>>}
      [] f = "vol_ratio" -> {NaN, <<50>>, <<60>>, <<100>>, <<180>>}
      [] f = "vol20_pct" -> {NaN, <<10>>, <<15>>, <<20>>, <<35>>}
      [] f = "dd252"     -> {NaN, <<-40>>, <<-30>>, <<-10>>, <<-5>>, <<0>>}
      [] f = "pos20"     -> {NaN, <<0>>, <<15>>, <<50>>, <<85>>, <<100>>}

RECURSIVE Ball(_)
Ball(k) ==
    IF k = 0 THEN BaseRows
    ELSE LET B == Ball(k - 1)
         IN  B \cup {[b EXCEPT ![f] = v] : <<b, f, v>> \in
                        {t \in B \X Fields \X UNION {Values(g) : g \in Fields} :
                            t[3] \in Values(t[2])}}

Rows == Ball(MaxOverrides)

----------------------------------------------------------------------------
(* rule_result_from_df on a row: the scorer factor by factor, then the     *)
(* rating and the rule comment.                                            *)

Acc == [s |-> s, reasons |-> reasons]

\* the variables of the parts a specification does not run
ScorerIdle ==
    /\ row = AllUndefined
    /\ spc = "idle"
    /\ s = entry.s
    /\ reasons = entry.reasons
    /\ rr = NoResult
    /\ payload = NoResult

RatingIdle ==
    /\ probe = <<0, 0>>
    /\ ratings = <<>>

ParallelIdle == pending = {}

IndicatorIdle ==
    /\ series = <<>>
    /\ cut = 0
    /\ scored = <<>>

BacktestIdle ==
    /\ df = <<>>
    /\ horizon = 0
    /\ fwd_ret = <<>>
    /\ i = 0
    /\ rows = <<>>
    /\ bpc = "idle"
    /\ result = NoResult

Init ==
    /\ row \in Rows
    /\ spc = "ma20"
    /\ s = entry.s
    /\ reasons = entry.reasons
    /\ rr = NoResult
    /\ payload = NoResult
    /\ RatingIdle
    /\ BacktestIdle
    /\ ParallelIdle
    /\ IndicatorIdle

\* one factor's block has run: its s and reasons are the locals from now on
Update(acc, next) ==
    /\ s' = acc.s
    /\ reasons' = acc.reasons
    /\ spc' = next
    /\ UNCHANGED <<row, rr, payload, rating_vars, backtest_vars, parallel_vars, indicator_vars>>

Factor_ma20 ==
    /\ spc = "ma20"
    /\ Update(factor_ma20(row, Acc), "ma60")

Factor_ma60 ==
    /\ spc = "ma60"
    /\ Update(factor_ma60(row, Acc), "ma120")

Factor_ma120 ==
    /\ spc = "ma120"
    /\ Update(factor_ma120(row, Acc), "align")

Factor_align ==
    /\ spc = "align"
    /\ Update(factor_align(row, Acc), "rsi14")

Factor_rsi ==
    /\ spc = "rsi14"
    /\ Update(factor_rsi(row, Acc), "mom20")

Factor_mom20 ==
    /\ spc = "mom20"
    /\ Update(factor_mom20(row, Acc), "mom60")

Factor_mom60 ==
    /\ spc = "mom60"
    /\ Update(factor_mom60(row, Acc), "vol_ratio")

Factor_vol_ratio ==
    /\ spc = "vol_ratio"
    /\ Update(factor_vol_ratio(row, Acc), "vol20_pct")

Factor_vol20 ==
    /\ spc = "vol20_pct"
    /\ Update(factor_vol20(row, Acc), "dd252")

Factor_dd252 ==
    /\ spc = "dd252"
    /\ Update(factor_dd252(row, Acc), "pos20")

Factor_pos20 ==
    /\ spc = "pos20"
    /\ Update(factor_pos20(row, Acc), "clamp")

Clamp ==
    /\ spc = "clamp"
    /\ s' = clamp(s)
    /\ spc' = "return"
    /\ UNCHANGED <<row, reasons, rr, payload, rating_vars, backtest_vars, parallel_vars, indicator_vars>>

rule_result_from_df ==
    /\ spc = "return"
    /\ rr' = [score |-> s, rating |-> score_to_rating(s),
              comment_rule |-> Take(reasons, 5), reasons |-> reasons]
    /\ spc' = "rated"
    /\ UNCHANGED <<row, s, reasons, payload, rating_vars, backtest_vars, parallel_vars, indicator_vars>>

make_ai_comment_korean ==
    /\ spc = "rated"
    /\ payload' = [rating |-> rr.rating, score |-> rr.score,
                   reasons |-> Take(rr.reasons, 8)]
    /\ spc' = "commented"
    /\ UNCHANGED <<row, s, reasons, rr, rating_vars, backtest_vars, parallel_vars, indicator_vars>>

Next ==
    \/ Factor_ma20
    \/ Factor_ma60
    \/ Factor_ma120
    \/ Factor_align
    \/ Factor_rsi
    \/ Factor_mom20
    \/ Factor_mom60
    \/ Factor_vol_ratio
    \/ Factor_vol20
    \/ Factor_dd252
    \/ Factor_pos20
    \/ Clamp
    \/ rule_result_from_df
    \/ make_ai_comment_korean

Spec == Init /\ [][Next]_vars

----------------------------------------------------------------------------
(* score_to_rating on its own: two integer scores, also outside 0..100.    *)

ProbeMargin == 25

ProbeScores == (0 - ProbeMargin)..(100 + ProbeMargin)

InitRating ==
    /\ probe \in ProbeScores \X ProbeScores
    /\ ratings = <<>>
    /\ ScorerIdle
    /\ BacktestIdle
    /\ ParallelIdle
    /\ IndicatorIdle

RateProbe ==
    /\ ratings = <<>>
    /\ ratings' = <<score_to_rating(probe[1]), score_to_rating(probe[2])>>
    /\ UNCHANGED <<probe, scorer_vars, backtest_vars, parallel_vars, indicator_vars>>

NextRating == RateProbe

SpecRating == InitRating /\ [][NextRating]_vars

----------------------------------------------------------------------------
(* Exact fractions for the forward returns and their statistics: the code  *)
(* uses floats, the model the rational number the float approximates.      *)
(* A fraction is [n, d] with d > 0, in lowest terms.                       *)

Abs(x) == IF x < 0 THEN 0 - x ELSE x

RECURSIVE GCD(_, _)
GCD(a, b) == IF b = 0 THEN a ELSE GCD(b, a % b)

Rat(n, d) ==
    LET g == GCD(Abs(n), d)
    IN  [n |-> n \div g, d |-> d \div g]

RatAdd(x, y) == Rat(x.n * y.d + y.n * x.d, x.d * y.d)

RECURSIVE RatSum(_, _)
\* sum of f[k] over the index set K
RatSum(f, K) ==
    IF K = {} THEN Rat(0, 1)
    ELSE LET k == CHOOSE x \in K : TRUE
         IN  RatAdd(f[k], RatSum(f, K \ {k}))

\* x / m for an integer m > 0
RatOver(x, m) == Rat(x.n, x.d * m)

None == <<>>

Some(x) == <<x>>

----------------------------------------------------------------------------
(* backtest_score_bins.  df is the frame after compute_indicators and      *)
(* reset_index (lines 10-11): row k of the frame is df[k + 1].  The        *)
(* indicator columns come out of rolling float statistics and of the       *)
(* third-party RSI, so the frame is an input here: any close series with   *)
(* any indicator values beside it.                                         *)

start_i == 260

default_horizon == 20

MaxLen == 300

Lens == {0, 10} \cup ((start_i - 1)..MaxLen)

Horizons == {-2, -1, 0, 1, 5, default_horizon}

\* a frame in which every indicator took its constant-series value
ConstRow ==
    [close |-> <<100>>, ma20 |-> <<100>>, ma60 |-> <<100>>, ma120 |-> <<100>>,
     rsi14 |-> NaN, mom20 |-> <<0>>, mom60 |-> <<0>>, vol_ratio |-> <<100>>,
     vol20_pct |-> <<0>>, dd252 |-> <<0>>, pos20 |-> <<0>>]

CloseCycles == {<<100>>, <<80>>, <<80, 100, 120>>, <<120, 100, 100, 80>>}

RowCycles ==
    {<<ConstRow>>,
     <<AllBullish, Scenario1, Scenario2, AllUndefined, ConstRow, AllBearish>>,
     <<AllBearish, AllBullish>>}

Cyc(c, k) == c[((k - 1) % Len(c)) + 1]

Frame(n, cc, rc) ==
    [k \in 1..n |-> [Cyc(rc, k) EXCEPT !.close = <<Cyc(cc, k)>>]]

len(d) == Len(d)

\* df.iloc[k] / df.loc[k, col] for 0 <= k < len(df)
iloc(d, k) == d[k + 1]

\* mutant: the shifted column one row short at the tail
shift_ret_short(d, h) ==
    [k \in 1..Len(d) |->
        IF k + h >= 1 /\ k + h < Len(d)
        THEN Some(Rat(float(d[k + h].close) - float(d[k].close), float(d[k].close)))
        ELSE NaN]

\* df["close"].shift(-h) / df["close"] - 1.0
shift_ret(d, h) ==
    [k \in 1..Len(d) |->
        IF k + h >= 1 /\ k + h <= Len(d)
        THEN Some(Rat(float(d[k + h].close) - float(d[k].close), float(d[k].close)))
        ELSE NaN]

\* mutant: the horizon left out of the upper bound
end_i_no_horizon(d, h) == len(d) - 1

end_i(d, h) == len(d) - h - 1

InsufficientData == [ok |-> FALSE, message |-> "insufficient_data"]

NoSamples == [ok |-> FALSE, message |-> "no_samples"]

bins ==
    << [lo |-> 80, hi |-> 100, name |-> "StrongBuy(80-100)"],
       [lo |-> 60, hi |-> 79,  name |-> "Buy(60-79)"],
       [lo |-> 40, hi |-> 59,  name |-> "Neutral(40-59)"],
       [lo |-> 20, hi |-> 39,  name |-> "Sell(20-39)"],
       [lo |-> 0,  hi |-> 19,  name |-> "StrongSell(0-19)"] >>

\* mutant: the upper bound of a bin read as exclusive
mask_exclusive(rs, lo, hi) == {k \in DOMAIN rs : rs[k][1] >= lo /\ rs[k][1] < hi}

\* (scores >= lo) & (scores <= hi), as the set of sample positions
mask(rs, lo, hi) == {k \in DOMAIN rs : rs[k][1] >= lo /\ rs[k][1] <= hi}

rets(rs) == [k \in DOMAIN rs |-> rs[k][2]]

\* mutant: a return of zero counted as a win
win_rate_nonneg(rs, K) ==
    Rat(Cardinality({k \in K : rs[k][2].n >= 0}), Cardinality(K))

\* (rr > 0).mean() over the samples at positions K
win_rate(rs, K) == Rat(Cardinality({k \in K : rets(rs)[k].n > 0}), Cardinality(K))

\* mutant: the mean seeded with the sample collected first
avg_return_seeded(rs, K) ==
    LET first == CHOOSE k \in K : \A j \in K : k <= j
    IN  RatOver(RatAdd(RatSum(rets(rs), K), rets(rs)[first]), Cardinality(K) + 1)

\* rr.mean() over the samples at positions K
avg_return(rs, K) == RatOver(RatSum(rets(rs), K), Cardinality(K))

\* mutant: an empty bin reported with statistics of zero
bin_out_zero_stats(rs, b) ==
    LET m == mask(rs, b.lo, b.hi)
    IN  IF Cardinality(m) = 0
        THEN [bin |-> b.name, n |-> 0,
              win_rate |-> Some(Rat(0, 1)), avg_return |-> Some(Rat(0, 1))]
        ELSE [bin |-> b.name, n |-> Cardinality(m),
              win_rate |-> Some(win_rate(rs, m)),
              avg_return |-> Some(avg_return(rs, m))]

\* lines 48-57: the aggregate of one bin
bin_out(rs, b) ==
    LET m == mask(rs, b.lo, b.hi)
    IN  IF Cardinality(m) = 0
        THEN [bin |-> b.name, n |-> 0, win_rate |-> None, avg_return |-> None]
        ELSE [bin |-> b.name, n |-> Cardinality(m),
              win_rate |-> Some(win_rate(rs, m)),
              avg_return |-> Some(avg_return(rs, m))]

overall(rs) ==
    [n |-> Len(rs), win_rate |-> win_rate(rs, DOMAIN rs),
     avg_return |-> avg_return(rs, DOMAIN rs)]

\* lines 47-66: the report built from the collected samples
report(rs, h) ==
    [ok |-> TRUE, overall |-> overall(rs),
     bins |-> [b \in DOMAIN bins |-> bin_out(rs, bins[b])],
     horizon |-> h]

InitBacktest ==
    /\ \E n \in Lens, cc \in CloseCycles, rc \in RowCycles : df = Frame(n, cc, rc)
    /\ horizon \in Horizons
    /\ fwd_ret = <<>>
    /\ i = 0
    /\ rows = <<>>
    /\ bpc = "start"
    /\ result = NoResult
    /\ ScorerIdle
    /\ RatingIdle
    /\ ParallelIdle
    /\ IndicatorIdle

\* lines 14-22: the forward-return column and the range check
RangeCheck ==
    /\ bpc = "start"
    /\ fwd_ret' = shift_ret(df, horizon)
    /\ IF end_i(df, horizon) <= start_i
       THEN /\ bpc' = "failed"
            /\ result' = InsufficientData
            /\ i' = i
       ELSE /\ bpc' = "loop"
            /\ result' = result
            /\ i' = start_i
    /\ UNCHANGED <<df, horizon, rows, scorer_vars, rating_vars, parallel_vars, indicator_vars>>

\* lines 24-29: one iteration of the scoring loop
LoopBody ==
    /\ bpc = "loop"
    /\ i < end_i(df, horizon)
    /\ IF i >= len(df)
       THEN \* df.iloc[i] raises IndexError
            /\ bpc' = "raised"
            /\ UNCHANGED <<i, rows>>
       ELSE /\ rows' = IF notna(iloc(fwd_ret, i))
                       THEN Append(rows, <<score_from_row(iloc(df, i)).s,
                                           float(iloc(fwd_ret, i))>>)
                       ELSE rows
            /\ i' = i + 1
            /\ bpc' = bpc
    /\ UNCHANGED <<df, horizon, fwd_ret, result, scorer_vars, rating_vars, parallel_vars, indicator_vars>>

\* lines 31-66: the loop is over; no samples, or the report
Report ==
    /\ bpc = "loop"
    /\ i >= end_i(df, horizon)
    /\ IF rows = <<>>
       THEN /\ bpc' = "failed"
            /\ result' = NoSamples
       ELSE /\ bpc' = "done"
            /\ result' = report(rows, horizon)
    /\ UNCHANGED <<df, horizon, fwd_ret, i, rows, scorer_vars, rating_vars, parallel_vars, indicator_vars>>

NextBacktest ==
    \/ RangeCheck
    \/ LoopBody
    \/ Report

SpecBacktest == InitBacktest /\ [][NextBacktest]_vars

----------------------------------------------------------------------------
(* Properties of the row scorer, checked under Spec.                       *)

FactorPcs ==
    {"ma20", "ma60", "ma120", "align", "rsi14", "mom20", "mom60",
     "vol_ratio", "vol20_pct", "dd252", "pos20"}

Returned == {"return", "rated", "commented"}

\* the factor about to run has an undefined indicator
Undefined(at) ==
    CASE at = "align" -> row.ma20 = NaN \/ row.ma60 = NaN \/ row.ma120 = NaN
      [] OTHER        -> row[at] = NaN

FactorNo(at) ==
    CASE at = "ma20" -> 1 [] at = "ma60" -> 2 [] at = "ma120" -> 3
      [] at = "align" -> 4 [] at = "rsi14" -> 5 [] at = "mom20" -> 6
      [] at = "mom60" -> 7 [] at = "vol_ratio" -> 8 [] at = "vol20_pct" -> 9
      [] at = "dd252" -> 10 [] at = "pos20" -> 11

\* the signed deltas section 4.2 of the specification lists for a factor
FactorDeltas(at) ==
    CASE at = "ma20" -> {8, -8} [] at = "ma60" -> {10, -10}
      [] at = "ma120" -> {6, -6} [] at = "align" -> {8, -8}
      [] at = "rsi14" -> {10, -10, 0} [] at = "mom20" -> {6, -6}
      [] at = "mom60" -> {6, -6} [] at = "vol_ratio" -> {8, -3}
      [] at = "vol20_pct" -> {-5, 2} [] at = "dd252" -> {5, -3}
      [] at = "pos20" -> {3, -2}

Texts(rs) == [k \in DOMAIN rs |-> rs[k].text]

\* C1: the score _score_from_row returns is an integer in 0..100, for every
\* indicator row, although the sum before the clamp can leave that range.
C1_ScoreInRange ==
    /\ spc \in Returned => s \in 0..100
    /\ spc \in {"rated", "commented"} => rr.score \in 0..100

\* C1 witness: a returned score whose unclamped sum was above 100.
C1_Witness == spc = "return" /\ raw_score(row).s > 100 /\ s = 100

\* C3 as stated: scenario 1 scores 82 and rates Strong Buy.
C3_Original ==
    (spc = "rated" /\ row = Scenario1) =>
        rr.score = 82 /\ rr.rating = "StrongBuy"

\* C3 amended: on the scenario 1 row the scorer applies +8, +10, +6, +8 and
\* also -3 for dd252 = 0 (near the 52-week high); RSI adds 0 and nothing else
\* triggers, so the score is 79 and the rating Buy.
C3_Scenario1 ==
    (spc = "rated" /\ row = Scenario1) =>
        /\ rr.score = 79
        /\ rr.rating = "Buy"
        /\ Texts(rr.reasons) =
              <<"above_ma20", "above_ma60", "above_ma120", "ma_bullish_alignment",
                "rsi_neutral", "near_52w_high">>

\* C3 witness: the scenario 1 row has been scored and rated.
C3_Witness == spc = "rated" /\ row = Scenario1 /\ rr.score = 79

\* C4 as stated: scenario 1 with rsi14 = 75 scores 72 and rates Buy.
C4_Original ==
    (spc = "rated" /\ row = Scenario2) =>
        rr.score = 72 /\ rr.rating = "Buy"

\* C4 amended: on the scenario 1 row with rsi14 = 75 the overbought RSI
\* subtracts 10 from scenario 1's 79, so the score is 69 and the rating Buy.
C4_Scenario2 ==
    (spc = "rated" /\ row = Scenario2) =>
        /\ rr.score = 69
        /\ rr.rating = "Buy"
        /\ Texts(rr.reasons) =
              <<"above_ma20", "above_ma60", "above_ma120", "ma_bullish_alignment",
                "rsi_overbought", "near_52w_high">>

\* C4 witness: the scenario 2 row has been scored and rated.
C4_Witness == spc = "rated" /\ row = Scenario2 /\ rr.score = 69

\* C5: a factor whose indicator is undefined (for the alignment factor: any
\* of the three averages) changes neither s nor reasons; with all ten
\* indicators undefined the result is score 50, no reasons, rating Neutral.
C5_UndefinedSkipped ==
    /\ [][(spc \in FactorPcs /\ Undefined(spc)) =>
             (s' = s /\ reasons' = reasons)]_vars
    /\ []((spc \in {"rated", "commented"} /\ \A f \in Indicators : row[f] = NaN) =>
             (rr.score = 50 /\ rr.reasons = <<>> /\ rr.rating = "Neutral"))

\* C5 witness: a row with every indicator undefined has been rated.
C5_Witness ==
    spc = "rated" /\ (\A f \in Indicators : row[f] = NaN) /\ rr.score = 50

\* C9 as stated: every factor whose indicators are defined adjusts the score
\* by one of its fixed signed deltas and appends exactly one reason.
C9_Original ==
    [][(spc \in FactorPcs /\ ~Undefined(spc)) =>
          /\ Len(reasons') = Len(reasons) + 1
          /\ (s' - s) \in FactorDeltas(spc)]_vars

\* C9 amended: the factors close vs ma20, ma60, ma120 and RSI, when defined,
\* always append exactly one reason and adjust by their signed delta (RSI:
\* +10, -10 or 0); each of the other seven factors, when defined, either
\* adjusts by one of its signed deltas and appends exactly one reason, or
\* (value in the neutral band) changes neither the score nor the reasons.
C9_DefinedFactor ==
    [][(spc \in FactorPcs /\ ~Undefined(spc)) =>
          \/ /\ Len(reasons') = Len(reasons) + 1
             /\ SubSeq(reasons', 1, Len(reasons)) = reasons
             /\ reasons'[Len(reasons')].factor = FactorNo(spc)
             /\ (s' - s) \in FactorDeltas(spc)
          \/ /\ spc \notin {"ma20", "ma60", "ma120", "rsi14"}
             /\ s' = s
             /\ reasons' = reasons]_vars

\* C9 witness: mom20 was defined and in its neutral band, and its factor
\* left the five reasons and the score of the earlier factors as they were.
C9_Witness ==
    /\ spc = "mom60"
    /\ row.mom20 = <<0>>
    /\ \A f \in {"ma20", "ma60", "ma120", "rsi14"} : row[f] # NaN
    /\ Len(reasons) = 5
    /\ reasons[5].factor = 5

StrictlyOrdered(rs) ==
    \A j, k \in DOMAIN rs : j < k => rs[j].factor < rs[k].factor

\* every reason cut off by a truncation belongs to a later factor than every
\* reason kept
KeepsEarliest(kept, all) ==
    /\ kept = SubSeq(all, 1, Len(kept))
    /\ \A j \in DOMAIN kept : \A k \in (Len(kept) + 1)..Len(all) :
          kept[j].factor < all[k].factor

\* C10: the reasons hold at most one reason per factor, in the fixed factor
\* order, at every point of the scoring; so the first 5 (rule comment) and
\* the first 8 (comment payload) are the reasons of the earliest factors.
C10_ReasonOrder ==
    /\ StrictlyOrdered(reasons)
    /\ \A k \in DOMAIN reasons : reasons[k].factor \in 1..11
    /\ spc \in {"rated", "commented"} =>
          /\ rr.reasons = reasons
          /\ Len(rr.comment_rule) = Min(5, Len(reasons))
          /\ KeepsEarliest(rr.comment_rule, reasons)
    /\ spc = "commented" =>
          /\ Len(payload.reasons) = Min(8, Len(reasons))
          /\ KeepsEarliest(payload.reasons, reasons)

\* C10 witness: more than eight factors gave a reason and both truncations
\* have been taken.
C10_Witness ==
    spc = "commented" /\ Len(reasons) > 8 /\ Len(payload.reasons) = 8

----------------------------------------------------------------------------
(* Properties of score_to_rating, checked under SpecRating.                *)

Rank(rating) ==
    CASE rating = "StrongSell" -> 0 [] rating = "Sell" -> 1
      [] rating = "Neutral" -> 2 [] rating = "Buy" -> 3
      [] rating = "StrongBuy" -> 4

Labels == {"StrongSell", "Sell", "Neutral", "Buy", "StrongBuy"}

RatingByRange(score, rating) ==
    /\ rating \in Labels
    /\ score >= 80 => rating = "StrongBuy"
    /\ (score >= 60 /\ score <= 79) => rating = "Buy"
    /\ (score >= 40 /\ score <= 59) => rating = "Neutral"
    /\ (score >= 20 /\ score <= 39) => rating = "Sell"
    /\ score < 20 => rating = "StrongSell"

\* C2: score_to_rating gives every integer score one of the five labels,
\* Strong Buy from 80, Buy for 60..79, Neutral for 40..59, Sell for 20..39,
\* Strong Sell below 20, and a higher score never gets a lower rating.
C2_RatingTable ==
    ratings # <<>> =>
        /\ RatingByRange(probe[1], ratings[1])
        /\ RatingByRange(probe[2], ratings[2])
        /\ probe[1] > probe[2] => Rank(ratings[1]) >= Rank(ratings[2])

\* C2 witness: two scores on either side of a threshold have been rated.
C2_Witness ==
    /\ ratings # <<>>
    /\ probe = <<80, 79>>
    /\ ratings = <<"StrongBuy", "Buy">>

----------------------------------------------------------------------------
(* Properties of backtest_score_bins, checked under SpecBacktest.          *)

Finished == {"failed", "done", "raised"}

BinRating == <<"StrongBuy", "Buy", "Neutral", "Sell", "StrongSell">>

\* the bins whose mask holds sample k
BinsOf(k) == {b \in DOMAIN bins : k \in mask(rows, bins[b].lo, bins[b].hi)}

RECURSIVE SumN(_, _)
SumN(out, K) ==
    IF K = {} THEN 0
    ELSE LET k == CHOOSE x \in K : TRUE
         IN  out[k].n + SumN(out, K \ {k})

ConstantClose == \A k \in DOMAIN df : df[k].close = df[1].close

Zero == Rat(0, 1)

\* C6: a series of fewer than 260 + horizon + 1 rows gets the
\* insufficient-data failure result; nothing is raised and the scoring loop
\* is never entered.
C6_ShortSeriesFails ==
    (bpc # "start" /\ len(df) < start_i + horizon + 1) =>
        /\ bpc = "failed"
        /\ result = InsufficientData
        /\ i = 0
        /\ rows = <<>>

\* C6 witness: a 10-row series with horizon 20 has been refused.
C6_Witness ==
    bpc = "failed" /\ len(df) = 10 /\ horizon = 20 /\ result = InsufficientData

\* C7: in a successful backtest every sample is in exactly one of the five
\* bins, the one of its score's rating, and the bins' n add up to overall n.
C7_BinPartition ==
    bpc = "done" =>
        /\ result.ok
        /\ \A k \in DOMAIN rows :
              /\ Cardinality(BinsOf(k)) = 1
              /\ \A b \in BinsOf(k) : BinRating[b] = score_to_rating(rows[k][1])
        /\ \A b \in DOMAIN bins :
              result.bins[b].n = Cardinality(mask(rows, bins[b].lo, bins[b].hi))
        /\ SumN(result.bins, DOMAIN result.bins) = result.overall.n
        /\ result.overall.n = Len(rows)

\* C7 witness: a report in which each of the five bins holds a sample.
C7_Witness ==
    bpc = "done" /\ \A b \in DOMAIN bins : result.bins[b].n >= 1

\* C8: 300 rows of one constant close with horizon 20 give a successful
\* report in which every forward return is 0, win_rate is 0 in every bin
\* with a sample and overall, and the overall avg_return is 0.
C8_ConstantSeries ==
    (len(df) = 300 /\ horizon = 20 /\ ConstantClose) =>
        /\ bpc \in Finished => bpc = "done"
        /\ \A k \in DOMAIN rows : rows[k][2] = Zero
        /\ bpc = "done" =>
              /\ result.ok
              /\ result.overall.n = 19
              /\ result.overall.win_rate = Zero
              /\ result.overall.avg_return = Zero
              /\ \A b \in DOMAIN bins :
                    result.bins[b].n >= 1 =>
                        result.bins[b].win_rate = Some(Zero)

\* C8 witness: the report of a constant 300-row series with horizon 20.
C8_Witness ==
    /\ bpc = "done"
    /\ len(df) = 300
    /\ horizon = 20
    /\ ConstantClose
    /\ \E b \in DOMAIN bins : result.bins[b].n >= 1

----------------------------------------------------------------------------
(* compute_indicators on a raw series S of [close, volume] rows, already   *)
(* in date order; row k of the code is S[k + 1].                           *)
(*                                                                         *)
(* Closes are whole prices and volumes whole numbers.  A column is held in *)
(* the fixed-point unit of its threshold and rounded so that every         *)
(* comparison the scorer makes has the outcome it has on the exact value:  *)
(* toward the middle of the neutral band where the thresholds are <= and   *)
(* >=, away from it where they are < and >.  close, ma20, ma60 and ma120   *)
(* are held in 1/120 of a price, which makes the three means whole.        *)

Floor(a, b) == a \div b

Ceil(a, b) == 0 - ((0 - a) \div b)

\* a / b rounded toward m2 / 2
Toward(a, b, m2) == IF 2 * a < m2 * b THEN Ceil(a, b) ELSE Floor(a, b)

\* a / b rounded away from m2 / 2
Away(a, b, m2) == IF 2 * a < m2 * b THEN Floor(a, b) ELSE Ceil(a, b)

RECURSIVE SumRange(_, _, _)
SumRange(f, lo, hi) == IF lo > hi THEN 0 ELSE f[hi] + SumRange(f, lo, hi - 1)

RECURSIVE MaxRange(_, _, _)
MaxRange(f, lo, hi) ==
    IF lo = hi THEN f[hi] ELSE Max(f[hi], MaxRange(f, lo, hi - 1))

RECURSIVE MinRange(_, _, _)
MinRange(f, lo, hi) ==
    IF lo = hi THEN f[hi] ELSE Min(f[hi], MinRange(f, lo, hi - 1))

close_of(S) == [k \in DOMAIN S |-> S[k].close]

volume_of(S) == [k \in DOMAIN S |-> S[k].volume]

\* the prices a raw series may hold, and the unit 1 / RetScale in which
\* every daily return between two of them is a whole number
Prices == {80, 100, 120}

RECURSIVE LCM(_)
LCM(P) ==
    IF P = {} THEN 1
    ELSE LET p == CHOOSE x \in P : TRUE
             m == LCM(P \ {p})
         IN  (p * m) \div GCD(p, m)

RetScale == LCM(Prices \cup {100})

\* df["ret"] = pct_change of close, in 1 / RetScale
ret(S, k) ==
    IF k >= 2
    THEN <<(RetScale * (S[k].close - S[k - 1].close)) \div S[k - 1].close>>
    ELSE NaN

\* ta.rsi(close, length=14): 100 * gains / (gains + losses) over the last 14
\* changes, 0 / 0 being NaN
rsi14(S, k) ==
    IF k >= 15
    THEN LET up == [j \in DOMAIN S |->
                      IF j >= 2 THEN Max(S[j].close - S[j - 1].close, 0) ELSE 0]
             dn == [j \in DOMAIN S |->
                      IF j >= 2 THEN Max(S[j - 1].close - S[j].close, 0) ELSE 0]
             g == SumRange(up, k - 13, k)
             l == SumRange(dn, k - 13, k)
         IN  IF g + l = 0 THEN NaN ELSE <<Away(100 * g, g + l, 100)>>
    ELSE NaN

\* close.rolling(w).mean(), in 1/120 of a price
ma(S, k, w) ==
    IF k >= w
    THEN <<(120 \div w) * SumRange(close_of(S), k - w + 1, k)>>
    ELSE NaN

\* volume / volume.rolling(20).mean(), in 1/100
vol_ratio(S, k) ==
    IF k >= 20
    THEN LET sum == SumRange(volume_of(S), k - 19, k)
         IN  IF sum = 0 THEN NaN
             ELSE <<Toward(100 * 20 * S[k].volume, sum, 240)>>
    ELSE NaN

\* ret.rolling(20).std() * sqrt(20) * 100, in percent.  With R the 20
\* returns in 1 / RetScale and X = 20 * sum(R^2) - sum(R)^2, the value v has
\* v^2 = 10000 * X / (19 * RetScale^2).
std_pct(X, U) ==
    IF X < U * 25 * 25
    THEN CHOOSE m \in 0..25 :
            U * m * m >= X /\ (m = 0 \/ U * (m - 1) * (m - 1) < X)
    ELSE CHOOSE m \in 25..400 :
            U * m * m <= X /\ U * (m + 1) * (m + 1) > X

vol20_pct(S, k) ==
    IF k >= 21
    THEN LET R  == [j \in DOMAIN S |-> IF j >= 2 THEN float(ret(S, j)) ELSE 0]
             R2 == [j \in DOMAIN S |-> R[j] * R[j]]
         IN  <<std_pct(20 * SumRange(R2, k - 19, k)
                         - SumRange(R, k - 19, k) * SumRange(R, k - 19, k),
                       19 * (RetScale \div 100) * (RetScale \div 100))>>
    ELSE NaN

\* close / close.shift(w) - 1.0, in 1/1000
mom(S, k, w) ==
    IF k > w
    THEN <<Away(1000 * (S[k].close - S[k - w].close), S[k - w].close, 0)>>
    ELSE NaN

\* mutant: the high taken over the whole series, not the trailing 252 rows
high252_whole_series(S, k) == <<MaxRange(close_of(S), 1, Len(S))>>

\* close.rolling(252).max()
high252(S, k) ==
    IF k >= 252 THEN <<MaxRange(close_of(S), k - 251, k)>> ELSE NaN

\* close / high252 - 1.0, in 1/100
dd252(S, k) ==
    IF notna(high252(S, k))
    THEN <<Toward(100 * (S[k].close - float(high252(S, k))),
                  float(high252(S, k)), -35)>>
    ELSE NaN

low20(S, k) ==
    IF k >= 20 THEN <<MinRange(close_of(S), k - 19, k)>> ELSE NaN

high20(S, k) ==
    IF k >= 20 THEN <<MaxRange(close_of(S), k - 19, k)>> ELSE NaN

\* mutant: the 1e-9 left out of the denominator, so 0 / 0 on a flat range
pos20_value_no_eps(c, lo, hi) ==
    IF hi = lo THEN NaN
    ELSE <<Toward(100 * (c - lo), hi - lo, 100)>>

\* (close - low20) / (high20 - low20 + 1e-9), in 1/100.  On a flat range the
\* quotient is 0 / 1e-9; otherwise it lies just below
\* (close - low20) / (high20 - low20).
pos20_value(c, lo, hi) ==
    IF hi = lo THEN <<0>>
    ELSE IF 2 * (c - lo) < hi - lo
         THEN <<Ceil(100 * (c - lo), hi - lo)>>
         ELSE <<Floor(100 * (c - lo) - 1, hi - lo)>>

pos20(S, k) ==
    IF k >= 20
    THEN pos20_value(S[k].close, float(low20(S, k)), float(high20(S, k)))
    ELSE NaN

compute_indicators(S) ==
    [k \in DOMAIN S |->
        [close |-> <<120 * S[k].close>>,
         rsi14 |-> rsi14(S, k),
         ma20 |-> ma(S, k, 20), ma60 |-> ma(S, k, 60), ma120 |-> ma(S, k, 120),
         vol_ratio |-> vol_ratio(S, k),
         vol20_pct |-> vol20_pct(S, k),
         mom20 |-> mom(S, k, 20), mom60 |-> mom(S, k, 60),
         dd252 |-> dd252(S, k),
         low20 |-> low20(S, k), high20 |-> high20(S, k),
         pos20 |-> pos20(S, k)]]

----------------------------------------------------------------------------
(* The row the backtest scores at index cut, for two raw series that agree *)
(* on rows 0..cut and go their own ways afterwards.                        *)

MaxTail == 25

Block(v, n) == [j \in 1..n |-> v]

PrefixCloses ==
    {<<100>>, <<80, 100, 120>>, <<120, 100, 100, 80>>,
     Block(80, 30) \o Block(120, 30),
     Block(120, 15) \o Block(80, 25)}

PrefixVolumes == {<<100>>, <<0>>, <<100, 100, 400>>}

Tails ==
    {[close |-> <<80>>, volume |-> <<100>>],
     [close |-> <<120>>, volume |-> <<400>>],
     [close |-> <<100, 80>>, volume |-> <<0>>]}

Cuts == {0, 19, 20, 130, 251, start_i, start_i + 10}

RawSeries(c, pc, pv, tail) ==
    [k \in 1..(c + 1 + MaxTail) |->
        IF k <= c + 1
        THEN [close |-> Cyc(pc, k), volume |-> Cyc(pv, k)]
        ELSE [close |-> Cyc(tail.close, k), volume |-> Cyc(tail.volume, k)]]

InitIndicators ==
    /\ cut \in Cuts
    /\ \E pc \in PrefixCloses, pv \in PrefixVolumes, ta \in Tails, tb \in Tails :
          series = <<RawSeries(cut, pc, pv, ta), RawSeries(cut, pc, pv, tb)>>
    /\ scored = <<>>
    /\ horizon \in {1, 5, default_horizon}
    /\ df = <<>>
    /\ fwd_ret = <<>>
    /\ i = 0
    /\ rows = <<>>
    /\ bpc = "idle"
    /\ result = NoResult
    /\ ScorerIdle
    /\ RatingIdle
    /\ ParallelIdle

\* the close column of the frame, which compute_indicators leaves as it is
close_column(S) == [k \in 1..Len(S) |-> [close |-> <<120 * S[k].close>>]]

\* backtest_score_bins lines 10-14 and 25-26 at row c of the series S: the
\* frame row df.iloc[c], which holds fwd_ret as one more column, and what
\* _score_from_row makes of it
scored_at(S, h, c) ==
    LET d == compute_indicators(S)
        r == ("fwd_ret" :> iloc(shift_ret(close_column(S), h), c)) @@ iloc(d, c)
    IN  [row |-> r, out |-> score_from_row(r)]

ScoreRows ==
    /\ scored = <<>>
    /\ scored' = <<scored_at(series[1], horizon, cut),
                   scored_at(series[2], horizon, cut)>>
    /\ UNCHANGED <<series, cut, scorer_vars, rating_vars, backtest_vars,
                   parallel_vars>>

NextIndicators == ScoreRows

SpecIndicators == InitIndicators /\ [][NextIndicators]_vars

\* C11: two series that agree on rows 0..cut get the same score (and the
\* same reasons) at row cut, whatever their later rows and hence their
\* forward returns are.
C11_NoLookahead ==
    scored # <<>> =>
        /\ SubSeq(series[1], 1, cut + 1) = SubSeq(series[2], 1, cut + 1)
        /\ scored[1].out = scored[2].out

\* C11 witness: the later rows and the forward-return labels of the two
\* series differ and the row was scored on both.
C11_Witness ==
    /\ scored # <<>>
    /\ cut >= start_i
    /\ series[1] # series[2]
    /\ scored[1].row.fwd_ret # scored[2].row.fwd_ret
    /\ scored[1].out.reasons # <<>>

FlatRange(r) == notna(r.low20) /\ r.low20 = r.high20

\* C13 as stated: on a zero-width 20-day range pos20 is a large finite
\* value, that is, one above the range 0..1 of a range position.
C13_Original ==
    scored # <<>> =>
        \A k \in 1..2 :
            FlatRange(scored[k].row) =>
                notna(scored[k].row.pos20) /\ float(scored[k].row.pos20) > 100

\* C13 amended: on a zero-width 20-day range (high20 = low20) pos20 is
\* defined and is exactly 0, the numerator close - low20 being 0; the scorer
\* takes the row as being at its 20-day low.
C13_FlatRangeIsZero ==
    scored # <<>> =>
        \A k \in 1..2 :
            FlatRange(scored[k].row) =>
                /\ scored[k].row.pos20 = <<0>>
                /\ \E j \in DOMAIN scored[k].out.reasons :
                      scored[k].out.reasons[j] = Reason(11, "near_20d_low", NaN)

\* C13 witness: a row whose last 20 closes are all equal has been scored.
C13_Witness ==
    /\ scored # <<>>
    /\ cut >= 19
    /\ FlatRange(scored[1].row)
    /\ scored[1].row.pos20 = <<0>>

----------------------------------------------------------------------------
(* The scoring loop of backtest_score_bins as a map-then-reduce: the        *)
(* eligible indices start_i .. end_i - 1 are scored by workers in any      *)
(* order, each appending its (score, forward return) pair to rows as it    *)
(* finishes, and the report is built once no index is pending.             *)

MaxWorkItems == 4

\* lines 24-29 run in index order over lo .. hi - 1
RECURSIVE loop_rows(_, _, _, _)
loop_rows(d, fr, lo, hi) ==
    IF lo >= hi THEN <<>>
    ELSE LET rest == loop_rows(d, fr, lo, hi - 1)
         IN  IF notna(iloc(fr, hi - 1))
             THEN Append(rest, <<score_from_row(iloc(d, hi - 1)).s,
                                 float(iloc(fr, hi - 1))>>)
             ELSE rest

InitParallel ==
    /\ horizon \in {1, 5, default_horizon}
    /\ \E k \in 1..MaxWorkItems, cc \in CloseCycles, rc \in RowCycles :
          df = Frame(start_i + horizon + 1 + k, cc, rc)
    /\ fwd_ret = shift_ret(df, horizon)
    /\ pending = start_i..(end_i(df, horizon) - 1)
    /\ i = 0
    /\ rows = <<>>
    /\ bpc = "map"
    /\ result = NoResult
    /\ ScorerIdle
    /\ RatingIdle
    /\ IndicatorIdle

\* lines 25-29 for one pending index, whichever worker finishes next
WorkerScore ==
    /\ bpc = "map"
    /\ \E j \in pending :
          /\ pending' = pending \ {j}
          /\ rows' = IF notna(iloc(fwd_ret, j))
                     THEN Append(rows, <<score_from_row(iloc(df, j)).s,
                                         float(iloc(fwd_ret, j))>>)
                     ELSE rows
    /\ UNCHANGED <<df, horizon, fwd_ret, i, bpc, result, scorer_vars, rating_vars, indicator_vars>>

\* lines 31-66 once every pair is collected
Reduce ==
    /\ bpc = "map"
    /\ pending = {}
    /\ IF rows = <<>>
       THEN /\ bpc' = "failed"
            /\ result' = NoSamples
       ELSE /\ bpc' = "done"
            /\ result' = report(rows, horizon)
    /\ UNCHANGED <<df, horizon, fwd_ret, i, rows, pending, scorer_vars, rating_vars, indicator_vars>>

NextParallel ==
    \/ WorkerScore
    \/ Reduce

SpecParallel == InitParallel /\ [][NextParallel]_vars

SequentialRows == loop_rows(df, fwd_ret, start_i, end_i(df, horizon))

----------------------------------------------------------------------------
(* Further properties of backtest_score_bins, checked under SpecBacktest.  *)

BinNames ==
    <<"StrongBuy(80-100)", "Buy(60-79)", "Neutral(40-59)", "Sell(20-39)",
      "StrongSell(0-19)">>

\* the samples of rows whose score is in lo..hi
InBin(lo, hi) == {k \in DOMAIN rows : rows[k][1] \in lo..hi}

Wins(K) == {k \in K : rows[k][2].n > 0}

\* C14: a successful report lists exactly five bin aggregates, in the order
\* 80-100, 60-79, 40-59, 20-39, 0-19; a bin without a sample reports n = 0
\* with null win_rate and avg_return, and a bin with a sample reports as
\* win_rate the fraction of its samples whose forward return is above 0.
C14_FiveBins ==
    bpc = "done" =>
        /\ result.ok
        /\ Len(result.bins) = 5
        /\ [b \in 1..5 |-> result.bins[b].bin] = BinNames
        /\ \A b \in 1..5 :
              LET K == InBin(100 - 20 * b, IF b = 1 THEN 100 ELSE 119 - 20 * b)
              IN  /\ result.bins[b].n = Cardinality(K)
                  /\ K = {} =>
                        /\ result.bins[b].win_rate = None
                        /\ result.bins[b].avg_return = None
                  /\ K # {} =>
                        /\ result.bins[b].win_rate =
                              Some(Rat(Cardinality(Wins(K)), Cardinality(K)))
                        /\ result.bins[b].avg_return # None

\* C14 witness: a report with an empty bin and with a bin in which some but
\* not all samples have a positive forward return.
C14_Witness ==
    /\ bpc = "done"
    /\ \E b \in 1..5 : result.bins[b].n = 0
    /\ \E b \in 1..5 :
          /\ result.bins[b].n >= 2
          /\ result.bins[b].win_rate # Some(Rat(0, 1))
          /\ result.bins[b].win_rate # Some(Rat(1, 1))

\* C15: with horizon h >= 1 every index of 260 .. n - h - 2 has a defined
\* forward return, so the loop skips no row, the no-samples failure is not
\* reached, a successful report has overall n = n_rows - h - 261, and row
\* n - h - 1, whose forward return is defined too, is never sampled.
C15_PositiveHorizon ==
    horizon >= 1 =>
        /\ bpc # "raised"
        /\ result # NoSamples
        /\ bpc \in {"loop", "done"} =>
              /\ \A k \in start_i..end_i(df, horizon) : notna(iloc(fwd_ret, k))
              /\ i <= end_i(df, horizon)
              /\ Len(rows) = i - start_i
              /\ \A k \in DOMAIN rows :
                    rows[k] = <<score_from_row(iloc(df, start_i + k - 1)).s,
                                float(iloc(fwd_ret, start_i + k - 1))>>
        /\ bpc = "done" =>
              /\ result.ok
              /\ result.overall.n = len(df) - horizon - (start_i + 1)

\* C15 witness: a successful report of a series with horizon 5.
C15_Witness ==
    /\ bpc = "done"
    /\ horizon = 5
    /\ len(df) = MaxLen
    /\ result.overall.n = MaxLen - 5 - 261
    /\ notna(iloc(fwd_ret, MaxLen - 5 - 1))
    /\ iloc(fwd_ret, MaxLen - 5) = NaN

\* C16 as stated: for every integer horizon the function returns the
\* failure result or reads only rows 0 <= i < len(series) in its loop, and
\* never raises an index error.
C16_NeverRaises ==
    /\ bpc # "raised"
    /\ (bpc = "loop" /\ i < end_i(df, horizon)) => (0 <= i /\ i < len(df))

====
